---------------------------- MODULE Spec2Model ----------------------------
(***************************************************************************)
(* hauleth/inter: interval arithmetic with directed rounding.              *)
(*                                                                         *)
(* The numeric primitive T is a small binary floating-point format: the    *)
(* finite values are +-m * 2^e, with the two infinities and NaN beside     *)
(* them. Every arithmetic primitive rounds its exact result to that grid   *)
(* in the direction the rounding-mode register holds. Zero carries no      *)
(* sign.                                                                   *)
(***************************************************************************)
EXTENDS Integers, Sequences, FiniteSets

VARIABLES
    round,      \* the platform rounding-mode register (a raw code)
    supported,  \* the raw codes the platform's fesetround accepts
    stack,      \* the execute scopes entered and not yet left, innermost last
    done,       \* the last Rounding::set / Rounding::execute call that returned
    a,          \* left operand  (Interval)
    b,          \* right operand (Interval)
    p,          \* first scalar argument of a constructor
    q,          \* second scalar argument of a constructor
    v,          \* scalar an interval is compared against
    op,         \* the last Interval operation applied
    ret,        \* what that operation returned
    pc,         \* position of Interval::sin
    i,          \* loop index of Interval::sin's fold
    x2,         \* self * self in Interval::sin
    acc,        \* accumulator of Interval::sin's fold
    shared,     \* TRUE when the threads act on one rounding-mode register
    regs,       \* the rounding-mode registers the threads act on
    threads     \* each thread's position in Add::add and what it holds

vars == <<round, supported, stack, done, a, b, p, q, v, op, ret, pc, i, x2, acc,
          shared, regs, threads>>

roundingVars == <<round, supported, stack, done>>
intervalVars == <<a, b, p, q, v, op, ret>>
sinVars == <<pc, i, x2, acc>>
threadVars == <<shared, regs, threads>>

---------------------------------------------------------------------------
(* Bounds of the model *)

\* largest mantissa of the numeric format
MaxMant == 2
\* largest exponent of the numeric format
MaxExp == 1
\* deepest nesting of execute scopes
MaxDepth == 2
\* threads running interval arithmetic at the same time
NumThreads == 2

---------------------------------------------------------------------------
(* The numeric primitive T *)

Mags == {m * (2 ^ e) : m \in 0..MaxMant, e \in 0..MaxExp}
Finite == Mags \cup {0 - m : m \in Mags}
MaxFinite == MaxMant * (2 ^ MaxExp)
PosInf == MaxFinite + 1
NegInf == 0 - PosInf
NaN == PosInf + 1
Values == Finite \cup {PosInf, NegInf, NaN}

IsFinite(x) == x \in Finite

\* PartialOrd of T: every comparison with NaN is false
Le(x, y) == x # NaN /\ y # NaN /\ x <= y
Lt(x, y) == x # NaN /\ y # NaN /\ x < y
Ge(x, y) == x # NaN /\ y # NaN /\ x >= y
Gt(x, y) == x # NaN /\ y # NaN /\ x > y

---------------------------------------------------------------------------
(* Rounding modes: the raw codes of enum Rounding *)

ToNearest == 0
Downward == 1024
Upward == 2048
TowardZero == 3072

Modes == {ToNearest, Downward, Upward, TowardZero}

\* a platform whose fenv uses the codes of the enum, and one that shares only
\* the code of ToNearest with it
Platforms == {Modes, {ToNearest}}

\* the exact rational n/d (d > 0) rounded toward minus infinity
RoundDown(n, d) ==
    IF \A f \in Finite : f * d > n THEN NegInf
    ELSE CHOOSE f \in Finite :
            f * d <= n /\ \A g \in Finite : g * d <= n => g <= f

\* the exact rational n/d (d > 0) rounded toward plus infinity
RoundUp(n, d) ==
    IF \A f \in Finite : f * d < n THEN PosInf
    ELSE CHOOSE f \in Finite :
            f * d >= n /\ \A g \in Finite : g * d >= n => g >= f

\* the exact rational n/d (d > 0) rounded to nearest, ties to even
RoundNearest(n, d) ==
    LET lo == RoundDown(n, d)
        hi == RoundUp(n, d)
        top == 2 ^ MaxExp
        l == IF lo = NegInf THEN 0 - (MaxFinite + top) ELSE lo
        h == IF hi = PosInf THEN MaxFinite + top ELSE hi
    IN  IF lo = hi THEN lo
        ELSE IF 2 * n < (l + h) * d THEN lo
        ELSE IF 2 * n > (l + h) * d THEN hi
        ELSE IF (l \div (h - l)) % 2 = 0 THEN lo ELSE hi

\* the exact rational n/d (d > 0) rounded as the register's mode asks
RoundTo(n, d, mode) ==
    CASE mode = Downward -> RoundDown(n, d)
      [] mode = Upward -> RoundUp(n, d)
      [] mode = TowardZero -> IF n >= 0 THEN RoundDown(n, d) ELSE RoundUp(n, d)
      [] OTHER -> RoundNearest(n, d)

\* RoundTo with its operands evaluated once
Round(n, d, mode) ==
    CHOOSE r \in {RoundTo(w[1], w[2], w[3]) : w \in {<<n, d, mode>>}} : TRUE

Sign(x) == IF x < 0 THEN 0 - 1 ELSE 1

FNeg(x) == IF x = NaN THEN NaN ELSE 0 - x

FAdd(x, y, mode) ==
    IF x = NaN \/ y = NaN THEN NaN
    ELSE IF ~IsFinite(x) /\ ~IsFinite(y) THEN (IF x = y THEN x ELSE NaN)
    ELSE IF ~IsFinite(x) THEN x
    ELSE IF ~IsFinite(y) THEN y
    ELSE Round(x + y, 1, mode)

FSub(x, y, mode) == FAdd(x, FNeg(y), mode)

FMul(x, y, mode) ==
    IF x = NaN \/ y = NaN THEN NaN
    ELSE IF ~IsFinite(x) \/ ~IsFinite(y)
         THEN (IF x = 0 \/ y = 0 THEN NaN
               ELSE IF Sign(x) = Sign(y) THEN PosInf ELSE NegInf)
    ELSE Round(x * y, 1, mode)

FDiv(x, y, mode) ==
    IF x = NaN \/ y = NaN THEN NaN
    ELSE IF ~IsFinite(x)
         THEN (IF ~IsFinite(y) THEN NaN
               ELSE IF Sign(x) = Sign(y) THEN PosInf ELSE NegInf)
    ELSE IF ~IsFinite(y) THEN 0
    ELSE IF y = 0 THEN (IF x = 0 THEN NaN ELSE IF x > 0 THEN PosInf ELSE NegInf)
    ELSE IF y > 0 THEN Round(x, y, mode)
    ELSE Round(0 - x, 0 - y, mode)

---------------------------------------------------------------------------
(* Rounding: the controller of the rounding-mode register *)

\* extern fesetround: establishes flag and returns 0, or returns non-zero and
\* leaves the register as it was
fesetround(reg, sup, flag) ==
    IF flag \in sup THEN [reg |-> flag, res |-> 0]
    ELSE [reg |-> reg, res |-> 1]

NoCall == [call |-> "none", req |-> 0, entry |-> 0, status |-> 0,
           body |-> 0, after |-> 0, result |-> "none"]

\* Rounding::set
Set(mode) ==
    LET s == fesetround(round, supported, mode)
    IN  /\ round' = s.reg
        /\ done' = [call |-> "set", req |-> mode, entry |-> round,
                    status |-> s.res, body |-> round, after |-> s.reg,
                    result |-> IF s.res = 0 THEN "Ok" ELSE "Err"]
        /\ UNCHANGED <<supported, stack>>

\* Rounding::execute up to the call of func: `old` takes what fesetround returned
ExecuteEnter(mode) ==
    LET s == fesetround(round, supported, mode)
    IN  /\ Len(stack) < MaxDepth
        /\ round' = s.reg
        /\ stack' = Append(stack, [old |-> s.res, req |-> mode,
                                   entry |-> round, body |-> s.reg])
        /\ UNCHANGED <<supported, done>>

\* Rounding::execute from the return of func: fesetround(old), then ret
ExecuteExit ==
    /\ stack # <<>>
    /\ LET f == stack[Len(stack)]
           s == fesetround(round, supported, f.old)
       IN  /\ round' = s.reg
           /\ stack' = SubSeq(stack, 1, Len(stack) - 1)
           /\ done' = [call |-> "execute", req |-> f.req, entry |-> f.entry,
                       status |-> f.old, body |-> f.body, after |-> s.reg,
                       result |-> "Ok"]
    /\ UNCHANGED supported

\* Rounding::execute around a closure that leaves the register alone: the
\* mode func runs under and the mode left behind
Execute(reg, sup, mode) ==
    LET s == fesetround(reg, sup, mode)
        t == fesetround(s.reg, sup, s.res)
    IN  [during |-> s.reg, after |-> t.reg, status |-> s.res]

\* the threads of the program
Threads == 1..NumThreads

\* no thread has been started
NoThreads ==
    /\ shared = FALSE
    /\ regs = <<>>
    /\ threads = <<>>

---------------------------------------------------------------------------
(* utils *)

partial_min(x, y) == IF Le(x, y) THEN x ELSE y

partial_max(x, y) == IF Ge(x, y) THEN x ELSE y

---------------------------------------------------------------------------
(* Interval<T> *)

Zero == [start |-> 0, end |-> 0]
NoRet == [tag |-> "none", start |-> 0, end |-> 0]
Panic == [tag |-> "panic", start |-> 0, end |-> 0]
None == [tag |-> "None", start |-> 0, end |-> 0]
Some(s, e) == [tag |-> "interval", start |-> s, end |-> e]
Answer(t) == [tag |-> t, start |-> 0, end |-> 0]

\* the Interval a returned value carries
Unwrap(r) == [start |-> r.start, end |-> r.end]

\* with_range asserting start < end
with_range_strict(s, e) == IF Lt(s, e) THEN Some(s, e) ELSE Panic

\* Interval::with_range: assert!(start <= end)
with_range(s, e) == IF Le(s, e) THEN Some(s, e) ELSE Panic

\* Interval::with_epsilon, the two bounds computed under the register's mode
with_epsilon(center, epsilon, mode) ==
    with_range(FSub(center, epsilon, mode), FAdd(center, epsilon, mode))

\* Interval::exact
exact(value, mode) == with_epsilon(value, 0, mode)

\* Interval::contains
contains(x, value) == Le(x.start, value) /\ Le(value, x.end)

\* intersection giving up when the bounds only touch
intersection_touching(x, y) ==
    LET low == partial_max(x.start, y.start)
        high == partial_min(x.end, y.end)
    IN  IF Ge(low, high) THEN None ELSE Some(low, high)

\* Interval::intersection
intersection(x, y) ==
    LET low == partial_max(x.start, y.start)
        high == partial_min(x.end, y.end)
    IN  IF Gt(low, high) THEN None ELSE Some(low, high)

\* PartialEq<T> for Interval<T>
eq(x, other) == contains(x, other)

\* partial_cmp with the bounds compared inclusively
partial_cmp_inclusive(x, other) ==
    IF Le(other, x.start) THEN "Greater"
    ELSE IF Ge(other, x.end) THEN "Less"
    ELSE IF contains(x, other) THEN "Equal"
    ELSE "NoOrdering"

\* PartialOrd<T> for Interval<T>
partial_cmp(x, other) ==
    IF Lt(other, x.start) THEN "Greater"
    ELSE IF Gt(other, x.end) THEN "Less"
    ELSE IF contains(x, other) THEN "Equal"
    ELSE "NoOrdering"

\* the register after the Downward scope and then the Upward scope of an operator
AfterOperator(reg, sup) ==
    Execute(Execute(reg, sup, Downward).after, sup, Upward).after

\* the mode the lower bound of an operator is computed under
LowerMode(reg, sup) == Execute(reg, sup, Downward).during

\* the mode the upper bound of an operator is computed under
UpperMode(reg, sup) ==
    Execute(Execute(reg, sup, Downward).after, sup, Upward).during

\* Add for Interval
add(x, y, reg, sup) ==
    Some(FAdd(x.start, y.start, LowerMode(reg, sup)),
         FAdd(x.end, y.end, UpperMode(reg, sup)))

\* Sub for Interval
sub(x, y, reg, sup) ==
    Some(FSub(x.start, y.start, LowerMode(reg, sup)),
         FSub(x.end, y.end, UpperMode(reg, sup)))

\* vec![x1, x2, x3].into_iter().fold(x0, partial_min)
FoldMin(x0, x1, x2_, x3) ==
    CHOOSE m \in {partial_min(partial_min(partial_min(c[1], c[2]), c[3]), c[4]) :
                    c \in {<<x0, x1, x2_, x3>>}} : TRUE

\* vec![x1, x2, x3].into_iter().fold(x0, partial_max)
FoldMax(x0, x1, x2_, x3) ==
    CHOOSE m \in {partial_max(partial_max(partial_max(c[1], c[2]), c[3]), c[4]) :
                    c \in {<<x0, x1, x2_, x3>>}} : TRUE

\* Mul for Interval
mul(x, y, reg, sup) ==
    LET dn == LowerMode(reg, sup)
        up == UpperMode(reg, sup)
    IN  Some(FoldMin(FMul(x.start, y.start, dn), FMul(x.start, y.end, dn),
                     FMul(x.end, y.start, dn), FMul(x.end, y.end, dn)),
             FoldMax(FMul(x.start, y.start, up), FMul(x.start, y.end, up),
                     FMul(x.end, y.start, up), FMul(x.end, y.end, up)))

\* Div rejecting a divisor that holds zero
div_checked(x, y, reg, sup) ==
    IF contains(y, 0) THEN Panic
    ELSE LET dn == LowerMode(reg, sup)
             up == UpperMode(reg, sup)
         IN  Some(FoldMin(FDiv(x.start, y.start, dn), FDiv(x.start, y.end, dn),
                          FDiv(x.end, y.start, dn), FDiv(x.end, y.end, dn)),
                  FoldMax(FDiv(x.start, y.start, up), FDiv(x.start, y.end, up),
                          FDiv(x.end, y.start, up), FDiv(x.end, y.end, up)))

\* Div for Interval
div(x, y, reg, sup) ==
    LET dn == LowerMode(reg, sup)
        up == UpperMode(reg, sup)
    IN  Some(FoldMin(FDiv(x.start, y.start, dn), FDiv(x.start, y.end, dn),
                     FDiv(x.end, y.start, dn), FDiv(x.end, y.end, dn)),
             FoldMax(FDiv(x.start, y.start, up), FDiv(x.start, y.end, up),
                     FDiv(x.end, y.start, up), FDiv(x.end, y.end, up)))

\* Neg for Interval
neg(x) == Some(FNeg(x.end), FNeg(x.start))

\* the intervals with_range builds from the values of T
Constructed ==
    {Unwrap(with_range(w[1], w[2])) :
        w \in {u \in Values \X Values : with_range(u[1], u[2]).tag = "interval"}}

---------------------------------------------------------------------------
(* The operations of Interval as steps of a client: an operator is applied   *)
(* to the operands a and b, and what it returns may become an operand.       *)

Apply(name, result) ==
    /\ op' = name
    /\ ret' = result
    /\ UNCHANGED <<a, b, p, q, v, supported, stack, done, sinVars, threadVars>>

OpAdd ==
    /\ op = "none"
    /\ Apply("add", add(a, b, round, supported))
    /\ round' = AfterOperator(round, supported)

OpSub ==
    /\ op = "none"
    /\ Apply("sub", sub(a, b, round, supported))
    /\ round' = AfterOperator(round, supported)

OpMul ==
    /\ op = "none"
    /\ Apply("mul", mul(a, b, round, supported))
    /\ round' = AfterOperator(round, supported)

OpDiv ==
    /\ op = "none"
    /\ Apply("div", div(a, b, round, supported))
    /\ round' = AfterOperator(round, supported)

OpNeg ==
    /\ op = "none"
    /\ Apply("neg", neg(a))
    /\ UNCHANGED round

OpIntersection ==
    /\ op = "none"
    /\ Apply("intersection", intersection(a, b))
    /\ UNCHANGED round

\* the value returned becomes the left operand of the next operation
KeepLeft ==
    /\ ret.tag = "interval"
    /\ a' = Unwrap(ret)
    /\ op' = "none"
    /\ ret' = NoRet
    /\ UNCHANGED <<b, p, q, v, roundingVars, sinVars, threadVars>>

Init ==
    /\ supported \in Platforms
    /\ round \in supported
    /\ stack = <<>>
    /\ done = NoCall
    /\ a \in Constructed
    /\ b \in Constructed
    /\ p = 0 /\ q = 0 /\ v = 0
    /\ op = "none" /\ ret = NoRet
    /\ pc = "idle" /\ i = 0 /\ x2 = Zero /\ acc = Zero
    /\ NoThreads

Next ==
    \/ OpAdd
    \/ OpSub
    \/ OpMul
    \/ OpDiv
    \/ OpNeg
    \/ OpIntersection
    \/ KeepLeft

Spec == Init /\ [][Next]_vars

---------------------------------------------------------------------------
(* Construction of an Interval from scalars, and its comparison to a scalar *)

Construct(name, result) ==
    /\ op' = name
    /\ ret' = result
    /\ a' = IF result.tag = "interval" THEN Unwrap(result) ELSE a
    /\ UNCHANGED <<b, p, q, v, roundingVars, sinVars, threadVars>>

WithRange ==
    /\ op = "none"
    /\ Construct("with_range", with_range(p, q))

WithEpsilon ==
    /\ op = "none"
    /\ Construct("with_epsilon", with_epsilon(p, q, round))

Exact ==
    /\ op = "none"
    /\ Construct("exact", exact(p, round))

Compare(name, result) ==
    /\ op \in {"with_range", "with_epsilon", "exact"}
    /\ ret.tag = "interval"
    /\ op' = name
    /\ ret' = Answer(result)
    /\ UNCHANGED <<a, b, p, q, v, roundingVars, sinVars, threadVars>>

Contains == Compare("contains", IF contains(a, v) THEN "true" ELSE "false")

Eq == Compare("eq", IF eq(a, v) THEN "true" ELSE "false")

PartialCmp == Compare("partial_cmp", partial_cmp(a, v))

ConstructInit ==
    /\ supported \in Platforms
    /\ round \in supported
    /\ stack = <<>>
    /\ done = NoCall
    /\ a = Zero /\ b = Zero
    /\ p \in Values /\ q \in Values /\ v \in Values
    /\ op = "none" /\ ret = NoRet
    /\ pc = "idle" /\ i = 0 /\ x2 = Zero /\ acc = Zero
    /\ NoThreads

ConstructNext ==
    \/ WithRange
    \/ WithEpsilon
    \/ Exact
    \/ Contains
    \/ Eq
    \/ PartialCmp

SpecConstruct == ConstructInit /\ [][ConstructNext]_vars

---------------------------------------------------------------------------
(* Interval::sin *)

\* the end of the range the fold of sin runs over: (1u64..500_000)
RangeEnd == 500000

\* the steps of the fold the model runs before it stops the loop
MaxSinSteps == 4

\* the end of the range as the model runs it
LoopEnd == IF RangeEnd <= MaxSinSteps + 1 THEN RangeEnd ELSE MaxSinSteps + 1

\* FromPrimitive::from_u64 into T
from_u64(n, mode) == Round(n, 1, mode)

\* Float::max: a NaN operand is ignored
FMax(x, y) ==
    IF x = NaN THEN y ELSE IF y = NaN THEN x ELSE IF x >= y THEN x ELSE y

\* Float::min: a NaN operand is ignored
FMin(x, y) ==
    IF x = NaN THEN y ELSE IF y = NaN THEN x ELSE IF x <= y THEN x ELSE y

\* a clamp that forgets the lower side
clamp_upper(x) == FMin(x, 1)

\* bound.max(-1).min(1)
clamp(x) == FMin(FMax(x, 0 - 1), 1)

\* one step of the fold: the accumulator it returns, or Panic. Each
\* intermediate value is bound once, as the element of a singleton set.
SinFold(accu, sq, k, reg, sup) ==
    LET r1 == AfterOperator(reg, sup)
        r2 == AfterOperator(r1, sup)
        int == {exact(from_u64(2 * k * (2 * k + 1), reg), reg)}
        fac == {IF n.tag = "panic" THEN Panic
                ELSE div(sq, Unwrap(n), reg, sup) : n \in int}
        prod == {IF f.tag = "panic" THEN Panic
                 ELSE mul(accu, Unwrap(f), r1, sup) : f \in fac}
        res == {IF t.tag = "panic" THEN Panic
                ELSE IF k % 2 = 0 THEN add(Unwrap(t), accu, r2, sup)
                ELSE sub(Unwrap(t), accu, r2, sup) : t \in prod}
    IN  CHOOSE r \in res : TRUE

\* let x2 = self * self, and the accumulator starts as self
SinStart ==
    /\ pc = "start"
    /\ x2' = Unwrap(mul(a, a, round, supported))
    /\ acc' = a
    /\ i' = 1
    /\ pc' = "fold"
    /\ round' = AfterOperator(round, supported)
    /\ UNCHANGED <<supported, stack, done, intervalVars, threadVars>>

\* one element of the range folded into the accumulator
SinStep ==
    /\ pc = "fold"
    /\ i < LoopEnd
    /\ \E r \in {SinFold(acc, x2, i, round, supported)} :
           IF r.tag = "panic"
           THEN pc' = "panic" /\ UNCHANGED <<acc, i>>
           ELSE pc' = "fold" /\ acc' = Unwrap(r) /\ i' = i + 1
    /\ round' = AfterOperator(round, supported)
    /\ UNCHANGED <<supported, stack, done, intervalVars, x2, threadVars>>

\* the range is exhausted: both bounds are clamped and returned
SinReturn ==
    /\ pc = "fold"
    /\ i >= LoopEnd
    /\ ret' = Some(clamp(acc.start), clamp(acc.end))
    /\ op' = "sin"
    /\ pc' = "done"
    /\ UNCHANGED <<roundingVars, a, b, p, q, v, i, x2, acc, threadVars>>

SinInit ==
    /\ supported \in Platforms
    /\ round \in supported
    /\ stack = <<>>
    /\ done = NoCall
    /\ a \in [start : Values, end : Values]
    /\ b = Zero /\ p = 0 /\ q = 0 /\ v = 0
    /\ op = "none" /\ ret = NoRet
    /\ pc = "start" /\ i = 0 /\ x2 = Zero /\ acc = Zero
    /\ NoThreads

SinNext ==
    \/ SinStart
    \/ SinStep
    \/ SinReturn

\* sin is one synchronous call: it keeps running until it returns
SpecSin == SinInit /\ [][SinNext]_vars /\ WF_vars(SinNext)

---------------------------------------------------------------------------
(* The rounding controller alone *)

RoundingInit ==
    /\ supported \in Platforms
    /\ round \in supported
    /\ stack = <<>>
    /\ done = NoCall
    /\ a = Zero /\ b = Zero /\ p = 0 /\ q = 0 /\ v = 0
    /\ op = "none" /\ ret = NoRet
    /\ pc = "idle" /\ i = 0 /\ x2 = Zero /\ acc = Zero
    /\ NoThreads

RoundingNext ==
    \/ \E mode \in Modes : Set(mode) /\ UNCHANGED <<intervalVars, sinVars, threadVars>>
    \/ \E mode \in Modes : ExecuteEnter(mode) /\ UNCHANGED <<intervalVars, sinVars, threadVars>>
    \/ ExecuteExit /\ UNCHANGED <<intervalVars, sinVars, threadVars>>

SpecRounding == RoundingInit /\ [][RoundingNext]_vars

---------------------------------------------------------------------------
(* Threads adding intervals at the same time. Each thread runs Add::add:    *)
(* Rounding::Downward.execute around the sum of the starts, then            *)
(* Rounding::Upward.execute around the sum of the ends. fesetround acts on  *)
(* the calling thread's own register, or on one register all threads share. *)

\* a closure that has not run yet
NotRun == 0 - 1

\* every thread acting on the first register
RegOfFirst(t) == 1

\* the register the fesetround calls of thread t act on
RegOf(t) == IF shared THEN 1 ELSE t

\* the registers there are
Registers(sh) == IF sh THEN {1} ELSE Threads

\* execute up to the call of func: let old = fesetround(self)
ScopeEnter(t, mode, from, to) ==
    /\ threads[t].pc = from
    /\ LET s == fesetround(regs[RegOf(t)], supported, mode)
       IN  /\ regs' = [regs EXCEPT ![RegOf(t)] = s.reg]
           /\ threads' = [threads EXCEPT ![t].pc = to, ![t].old = s.res]
    /\ UNCHANGED <<shared, roundingVars, intervalVars, sinVars>>

\* execute from the return of func: fesetround(old)
ScopeExit(t, from, to) ==
    /\ threads[t].pc = from
    /\ LET s == fesetround(regs[RegOf(t)], supported, threads[t].old)
       IN  regs' = [regs EXCEPT ![RegOf(t)] = s.reg]
    /\ threads' = [threads EXCEPT ![t].pc = to]
    /\ UNCHANGED <<shared, roundingVars, intervalVars, sinVars>>

\* Rounding::Downward.execute(|| ..) sets the mode
LowerEnter(t) == ScopeEnter(t, Downward, "start", "lower")

\* || self.start + other.start: the sum is rounded as the register says now
LowerBody(t) ==
    /\ threads[t].pc = "lower"
    /\ threads' = [threads EXCEPT ![t].pc = "lower_ret",
                                  ![t].lower = regs[RegOf(t)]]
    /\ UNCHANGED <<shared, regs, roundingVars, intervalVars, sinVars>>

LowerExit(t) == ScopeExit(t, "lower_ret", "between")

\* Rounding::Upward.execute(|| ..) sets the mode
UpperEnter(t) == ScopeEnter(t, Upward, "between", "upper")

\* || self.end + other.end: the sum is rounded as the register says now
UpperBody(t) ==
    /\ threads[t].pc = "upper"
    /\ threads' = [threads EXCEPT ![t].pc = "upper_ret",
                                  ![t].upper = regs[RegOf(t)]]
    /\ UNCHANGED <<shared, regs, roundingVars, intervalVars, sinVars>>

UpperExit(t) == ScopeExit(t, "upper_ret", "done")

ThreadsInit ==
    /\ supported \in Platforms
    /\ round \in supported
    /\ stack = <<>>
    /\ done = NoCall
    /\ a = Zero /\ b = Zero /\ p = 0 /\ q = 0 /\ v = 0
    /\ op = "none" /\ ret = NoRet
    /\ pc = "idle" /\ i = 0 /\ x2 = Zero /\ acc = Zero
    /\ shared \in BOOLEAN
    /\ regs \in [Registers(shared) -> supported]
    /\ threads = [t \in Threads |->
                    [pc |-> "start", old |-> 0, lower |-> NotRun, upper |-> NotRun]]

ThreadsNext ==
    \E t \in Threads :
        \/ LowerEnter(t)
        \/ LowerBody(t)
        \/ LowerExit(t)
        \/ UpperEnter(t)
        \/ UpperBody(t)
        \/ UpperExit(t)

SpecThreads == ThreadsInit /\ [][ThreadsNext]_vars

---------------------------------------------------------------------------
(* Properties *)

Abs(x) == IF x < 0 THEN 0 - x ELSE x

\* start <= end
Valid(x) == Le(x.start, x.end)

\* the real points of an interval that the model's range covers
Points(x) == {n \in (0 - MaxFinite)..MaxFinite : contains(x, n)}

\* the interval returned holds the real number n
Encloses(r, n) ==
    /\ r.start # NaN /\ r.end # NaN
    /\ r.start = NegInf \/ (IsFinite(r.start) /\ r.start <= n)
    /\ r.end = PosInf \/ (IsFinite(r.end) /\ r.end >= n)

\* the four corner products of a and b, each rounded under mode
CornerProducts(mode) ==
    {FMul(s, t, mode) : s \in {a.start, a.end}, t \in {b.start, b.end}}

\* C1: Rounding::execute leaves the register equal to the mode that was active
\* before the call, whatever mode was requested and whatever the body did.
C1_ExecuteRestoresMode ==
    done.call = "execute" => done.after = done.entry

\* C2: every Interval obtained from valid intervals by addition, subtraction,
\* negation, multiplication or intersection satisfies start <= end.
C2_StartLeEnd ==
    (/\ op \in {"add", "sub", "neg", "mul", "intersection"}
     /\ Valid(a) /\ Valid(b)
     /\ ret.tag = "interval")
        => Valid(ret)

\* C3: enclosure: for valid a and b and all points x of a and y of b, a + b
\* holds x + y, a - b holds x - y, a * b holds x * y and -a holds -x.
C3_Enclosure ==
    (Valid(a) /\ Valid(b)) =>
        /\ op = "add" => \A x \in Points(a), y \in Points(b) : Encloses(ret, x + y)
        /\ op = "sub" => \A x \in Points(a), y \in Points(b) : Encloses(ret, x - y)
        /\ op = "mul" => \A x \in Points(a), y \in Points(b) : Encloses(ret, x * y)
        /\ op = "neg" => \A x \in Points(a) : Encloses(ret, 0 - x)

\* C5: when fesetround reports failure, both Rounding::set and
\* Rounding::execute report an error to their caller.
C5_FailureReported ==
    (done.call \in {"set", "execute"} /\ done.status # 0) => done.result = "Err"

\* C8: the lower bound of a * b is the minimum of the four corner products
\* rounded Downward, the upper bound the maximum of the four rounded Upward,
\* and the lower bound is no greater than the upper bound.
C8_MulCorners ==
    (op = "mul" /\ Valid(a) /\ Valid(b)) =>
        /\ ret.start \in CornerProducts(Downward)
        /\ \A c \in CornerProducts(Downward) : Le(ret.start, c)
        /\ ret.end \in CornerProducts(Upward)
        /\ \A c \in CornerProducts(Upward) : Ge(ret.end, c)
        /\ Le(ret.start, ret.end)

\* the claim of C4 as written: with_range panics exactly when start > end,
\* with_epsilon with a negative epsilon panics, exact always succeeds
C4_AsClaimed ==
    /\ op = "with_range" =>
        /\ ret.tag = "panic" <=> Gt(p, q)
        /\ ret.tag # "panic" => ret = Some(p, q)
    /\ (op = "with_epsilon" /\ Lt(q, 0)) => ret.tag = "panic"
    /\ op = "exact" => ret = Some(p, p)

\* C4 (amended): with_range(s, e) panics exactly when s <= e does not hold,
\* that is when s > e or a bound is NaN, and otherwise returns start = s and
\* end = e; with_epsilon(c, eps) with eps < 0 panics whenever c - eps and
\* c + eps are finite and exact, and when it does return (eps lost to
\* rounding, or c infinite) it returns start = end; exact(v) returns
\* start = end = v for every v but NaN, on which it panics.
C4_Construction ==
    /\ op = "with_range" =>
        /\ ret.tag = "panic" <=> (Gt(p, q) \/ p = NaN \/ q = NaN)
        /\ ret.tag # "panic" => ret = Some(p, q)
    /\ (op = "with_epsilon" /\ Lt(q, 0)) =>
        /\ ret.tag \in {"panic", "interval"}
        /\ ret.tag = "interval" => ret.start = ret.end
        /\ (IsFinite(p) /\ IsFinite(q) /\ IsFinite(p - q) /\ IsFinite(p + q))
                => ret.tag = "panic"
    /\ op = "exact" =>
        /\ p # NaN => ret = Some(p, p)
        /\ p = NaN => ret.tag = "panic"

\* with_epsilon returned an interval for a finite center and a negative epsilon
C4_Witness ==
    /\ op = "with_epsilon"
    /\ IsFinite(p) /\ IsFinite(q) /\ q < 0
    /\ ret.tag = "interval"

\* C6: for valid a and b, a.intersection(b) equals b.intersection(a); it is
\* None exactly when a and b share no point, and otherwise it is the valid
\* interval [max of the starts, min of the ends], which holds exactly the
\* values both a and b hold.
C6_Intersection ==
    (op = "intersection" /\ Valid(a) /\ Valid(b)) =>
        /\ ret = intersection(b, a)
        /\ ret.tag \in {"None", "interval"}
        /\ ret.tag = "None" <=>
                ~ \E val \in Values : contains(a, val) /\ contains(b, val)
        /\ ret.tag = "interval" =>
            /\ ret.start = (IF a.start >= b.start THEN a.start ELSE b.start)
            /\ ret.end = (IF a.end <= b.end THEN a.end ELSE b.end)
            /\ Valid(ret)
            /\ \A val \in Values :
                    contains(ret, val) <=> (contains(a, val) /\ contains(b, val))

\* two intervals that overlap in part were intersected
C6_Witness ==
    /\ op = "intersection"
    /\ Valid(a) /\ Valid(b)
    /\ a.start < b.start /\ b.start < a.end /\ a.end < b.end
    /\ ret = Some(b.start, a.end)

\* C7: for a valid interval a and a scalar v of a totally ordered type,
\* a == v iff a.contains(v) iff the comparison of a against v is Equal; it is
\* Greater iff v < a.start and Less iff v > a.end; no other outcome is produced.
C7_ScalarComparison ==
    (Valid(a) /\ v # NaN) =>
        /\ op = "contains" => (ret.tag = "true" <=> (a.start <= v /\ v <= a.end))
        /\ op = "eq" =>
            /\ ret.tag = "true" <=> contains(a, v)
            /\ ret.tag = "true" <=> partial_cmp(a, v) = "Equal"
        /\ op = "partial_cmp" =>
            /\ ret.tag \in {"Less", "Equal", "Greater"}
            /\ ret.tag = "Equal" <=> eq(a, v)
            /\ ret.tag = "Greater" <=> v < a.start
            /\ ret.tag = "Less" <=> v > a.end

\* an interval was compared against one of its own bounds
C7_Witness ==
    /\ op = "partial_cmp"
    /\ a.start < a.end
    /\ v = a.start
    /\ ret.tag = "Equal"

\* the claim of C9 as written: a divisor that holds zero gives no error and
\* two non-finite endpoints
C9_AsClaimed ==
    (op = "div" /\ Valid(a) /\ Valid(b) /\ contains(b, 0)) =>
        /\ ret.tag = "interval"
        /\ ~IsFinite(ret.start)
        /\ ~IsFinite(ret.end)

\* C9 (amended): for valid a and a valid divisor b that holds zero, a / b
\* raises no error; both endpoints are non-finite when b = [0, 0]; when zero
\* lies strictly inside b and the endpoints of a and b are finite, both
\* endpoints are finite unless a corner quotient overflows.
C9_DivisorHoldingZero ==
    (op = "div" /\ Valid(a) /\ Valid(b) /\ contains(b, 0)) =>
        /\ ret.tag = "interval"
        /\ (b.start = 0 /\ b.end = 0) =>
                (~IsFinite(ret.start) /\ ~IsFinite(ret.end))
        /\ (/\ b.start < 0 /\ 0 < b.end
            /\ IsFinite(a.start) /\ IsFinite(a.end)
            /\ IsFinite(b.start) /\ IsFinite(b.end)
            /\ \A s \in {a.start, a.end}, t \in {b.start, b.end} :
                    Abs(s) <= MaxFinite * Abs(t))
                => (IsFinite(ret.start) /\ IsFinite(ret.end))

\* a non-zero interval was divided by one that holds zero strictly inside it
C9_Witness ==
    /\ op = "div"
    /\ Valid(a) /\ Valid(b)
    /\ 0 < a.start /\ IsFinite(a.end)
    /\ b.start < 0 /\ 0 < b.end /\ IsFinite(b.start) /\ IsFinite(b.end)
    /\ IsFinite(ret.start) /\ IsFinite(ret.end)
    /\ ret.start < 0 /\ 0 < ret.end

\* C10: for every input interval, sin runs every step of its fold with no
\* early exit, terminates, and returns an interval whose start and end both
\* lie in [-1, 1], whatever the accumulator reached.
C10_SinClamped ==
    /\ [](pc # "panic")
    /\ [](pc = "done" =>
            /\ i = LoopEnd
            /\ ret.tag = "interval"
            /\ Le(0 - 1, ret.start) /\ Le(ret.start, 1)
            /\ Le(0 - 1, ret.end) /\ Le(ret.end, 1))
    /\ <>(pc = "done")

\* sin returned although its accumulator had left [-1, 1] or was NaN
C10_Witness ==
    /\ pc = "done"
    /\ i = LoopEnd
    /\ acc.start = NaN \/ acc.start < 0 - 1
    /\ acc.end = NaN \/ acc.end > 1

\* fesetround accepts the two modes Add::add asks for
AcceptsDirected == {Downward, Upward} \subseteq supported

\* thread t ran a closure of Add::add while its register held a mode other
\* than the one the enclosing execute call requested
Mismatch(t) ==
    \/ threads[t].lower \notin {NotRun, Downward}
    \/ threads[t].upper \notin {NotRun, Upward}

=============================================================================
